---- MODULE Spec2Model ----
(***************************************************************************)
(* Model of helpers/Prism.js: the Prism client object (options, api        *)
(* accessor, connected / authenticated flags, session) and its methods.   *)
(*                                                                         *)
(* Every promise chain of the form                                         *)
(*   prepare().then(post).spread(validate).spread(body).catch(handler)     *)
(* is modelled by three steps: the synchronous invocation (prepare and    *)
(* the construction of the chain), the .then callback that sends the POST, *)
(* and the completion of the POST followed by the remaining callbacks      *)
(* (validation is pure and each body callback is a single synchronous      *)
(* function, so running them in one step loses no interleaving).           *)
(***************************************************************************)
EXTENDS Integers, FiniteSets, Sequences, Bags, TLC

VARIABLES opts, api, authenticated, connected, session, pending, last

vars == <<opts, api, authenticated, connected, session, pending, last>>

(* ---------------------------------------------------------------- values *)

\* a falsy / omitted string argument or option (undefined, null, '')
Null == "null"
\* the token of a session object that carries none ({} or a missing field)
NoToken == "none"
Tokens == {"t1", "t2"}

\* number of calls a caller keeps outstanding in the concurrent specification
MaxPending == 2

\* opts.prism.port of the constructor's defaults
OptsDefaultPort == 5971
\* the literal of connect()'s port fallback
ConnectFallbackPort == 5971
DefaultDomain == "cdn.oose.io"

Hosts == {"h1", "h2"}
Ports == {8080}

ErrNotConnected == "UserError: Not connected"
ErrNotAuthenticated == "UserError: Not authenticated"
ErrNoSession == "UserError: Login failed, no session"
ErrType == "TypeError: postAsync is not a function"
ErrTransport == "raw transport error"
ErrValidation == "raw validation error"
ErrNormalized == "normalized network error"
UserErrors == {ErrNotConnected, ErrNotAuthenticated, ErrNoSession}

ContentOps ==
  {"contentDetail", "contentUpload", "contentRetrieve", "contentPurchase",
   "contentPurchaseRemove"}
JobOps ==
  {"jobCreate", "jobDetail", "jobUpdate", "jobStart", "jobAbort", "jobRetry",
   "jobRemove", "jobContentExists"}
ContentJobOps == ContentOps \cup JobOps
PreparedOps == ContentJobOps \cup {"logout"}

\* the url each method posts to
Endpoint(op) ==
  CASE op = "login" -> "/user/login"
    [] op = "logout" -> "/user/logout"
    [] op = "contentDetail" -> "/content/detail"
    [] op = "contentUpload" -> "/content/upload"
    [] op = "contentRetrieve" -> "/content/retrieve"
    [] op = "contentPurchase" -> "/content/purchase"
    [] op = "contentPurchaseRemove" -> "/content/purchase/remove"
    [] op = "jobCreate" -> "/job/create"
    [] op = "jobDetail" -> "/job/detail"
    [] op = "jobUpdate" -> "/job/update"
    [] op = "jobStart" -> "/job/start"
    [] op = "jobAbort" -> "/job/abort"
    [] op = "jobRetry" -> "/job/retry"
    [] op = "jobRemove" -> "/job/remove"
    [] op = "jobContentExists" -> "/job/content/exists"

\* whether the method's chain holds .spread(that.api.validateResponse())
Validates(op) == op # "jobDetail"

(* ---------------------------------------------------------------- events *)

\* last: the most recent thing the client did, as its caller or the network
\* sees it.  kind is one of
\*   "init"      the constructor returned
\*   "returned"  a synchronous method returned
\*   "threw"     a method threw synchronously
\*   "called"    a method returned a pending promise, nothing sent yet
\*   "post"      a POST was handed to the transport (val: url, token: header)
\*   "resolved"  a promise resolved (val: the value)
\*   "rejected"  a promise rejected (val: the error)
\* host, port and sess are the arguments of connect, setSession and prepare;
\* for a completed login sess is the token of the response's body.session.
\* posts counts the POSTs the call has issued, validated tells whether
\* validateResponse accepted the response, net is what the transport delivered.
E0 ==
  [op |-> "new", kind |-> "init", val |-> Null, host |-> Null, port |-> 0,
   sess |-> NoToken, token |-> NoToken, posts |-> 0, validated |-> FALSE,
   net |-> "none"]

Ev(op, kind, val) == [E0 EXCEPT !.op = op, !.kind = kind, !.val = val]

(* ------------------------------------------------------------ api helper *)

\* api.validateResponse(): passes a well-formed response on, throws otherwise
ValidateResponse(net) == net = "ok"

\* api.handleNetworkError: re-throws the failure in normalized form; a user
\* error stays the user error it is
ApiHandleNetworkError(err) ==
  IF err \in UserErrors THEN err ELSE ErrNormalized

\* api.setSession(session, request, 'X-OOSE-Token'): a request client whose
\* header carries the token of the session it is given
ApiSetSession(sess) == sess

(* ------------------------------------------------------------ constructor *)

Configs ==
  [domain : {DefaultDomain},
   host : {Null, "h2"},
   port : {OptsDefaultPort, 0}]

Init ==
  /\ opts \in Configs
  /\ api = "empty"
  /\ authenticated = FALSE
  /\ connected = FALSE
  /\ session = NoToken
  /\ pending = EmptyBag
  /\ last = E0

isConnected == connected
isAuthenticated == authenticated

(* ------------------------------------------------------------- setSession *)

\* setSession that stores the token and forgets the flag
SetSessionStoresOnly(sessionToken) ==
  [session |-> sessionToken, authenticated |-> authenticated]

SetSessionState(sessionToken) ==
  [session |-> sessionToken, authenticated |-> TRUE]

setSession ==
  \E sessionToken \in Tokens :
    LET s == SetSessionState(sessionToken) IN
    /\ session' = s.session
    /\ authenticated' = s.authenticated
    /\ last' = [Ev("setSession", "returned", Null) EXCEPT !.sess = sessionToken]
    /\ UNCHANGED <<opts, api, connected, pending>>

(* ---------------------------------------------------------------- connect *)

\* connect that overwrites a configured prism host with the domain when no
\* host is given
ConnectOptsDomainAlways(o, host, port) ==
  IF host # Null
  THEN [o EXCEPT !.host = host, !.port = IF port # 0 THEN port ELSE @]
  ELSE [o EXCEPT
          !.host = o.domain,
          !.port = IF o.port = 0
                   THEN (IF port # 0 THEN port ELSE ConnectFallbackPort)
                   ELSE @]

ConnectOpts(o, host, port) ==
  IF host # Null
  THEN [o EXCEPT !.host = host, !.port = IF port # 0 THEN port ELSE @]
  ELSE [o EXCEPT
          !.host = IF o.host = Null THEN o.domain ELSE @,
          !.port = IF o.port = 0
                   THEN (IF port # 0 THEN port ELSE ConnectFallbackPort)
                   ELSE @]

ConnectApi(host) == IF host # Null THEN "access" ELSE "prism"

ConnectResult(o, host, port) ==
  IF host # Null THEN host ELSE ConnectOpts(o, host, port).host

connect ==
  \E host \in Hosts \cup {Null}, port \in Ports \cup {0} :
    /\ opts' = ConnectOpts(opts, host, port)
    /\ connected' = TRUE
    /\ api' = ConnectApi(host)
    /\ last' = [Ev("connect", "resolved", ConnectResult(opts, host, port))
                  EXCEPT !.host = host, !.port = port]
    /\ UNCHANGED <<authenticated, session, pending>>

(* ---------------------------------------------------------------- prepare *)

\* prepare with its two checks in the other order
PrepareAuthFirst(conn, auth, sess, sessArg) ==
  LET s == IF sessArg = NoToken THEN sess ELSE sessArg
      client == ApiSetSession(s)
  IN  IF ~auth
      THEN [ok |-> FALSE, err |-> ErrNotAuthenticated, token |-> NoToken]
      ELSE IF ~conn
      THEN [ok |-> FALSE, err |-> ErrNotConnected, token |-> NoToken]
      ELSE [ok |-> TRUE, err |-> Null, token |-> client]

\* prepare without its authentication check
PrepareConnectedOnly(conn, auth, sess, sessArg) ==
  LET s == IF sessArg = NoToken THEN sess ELSE sessArg
      client == ApiSetSession(s)
  IN  IF ~conn
      THEN [ok |-> FALSE, err |-> ErrNotConnected, token |-> NoToken]
      ELSE [ok |-> TRUE, err |-> Null, token |-> client]

\* prepare(request, session): sessArg = NoToken stands for an omitted session
PrepareResult(conn, auth, sess, sessArg) ==
  LET s == IF sessArg = NoToken THEN sess ELSE sessArg
      client == ApiSetSession(s)
  IN  IF ~conn
      THEN [ok |-> FALSE, err |-> ErrNotConnected, token |-> NoToken]
      ELSE IF ~auth
      THEN [ok |-> FALSE, err |-> ErrNotAuthenticated, token |-> NoToken]
      ELSE [ok |-> TRUE, err |-> Null, token |-> client]

prepare ==
  \E sessArg \in Tokens \cup {NoToken} :
    LET r == PrepareResult(isConnected, isAuthenticated, session, sessArg) IN
    /\ last' = IF r.ok
               THEN [Ev("prepare", "resolved", "client")
                       EXCEPT !.token = r.token, !.sess = sessArg]
               ELSE [Ev("prepare", "threw", r.err) EXCEPT !.sess = sessArg]
    /\ UNCHANGED <<opts, api, authenticated, connected, session, pending>>

(* ------------------------------------------------- calls that may be open *)

Call(op, pc, token, posts) ==
  [op |-> op, pc |-> pc, token |-> token, posts |-> posts]

Add(bag, c) == bag (+) SetToBag({c})
Remove(bag, c) == bag (-) SetToBag({c})

\* the caller awaits each promise before the next call
Idle == pending = EmptyBag
\* the caller keeps up to MaxPending promises outstanding
Room == BagCardinality(pending) < MaxPending

(* ------------------------------------------------------------------ login *)

\* login() uses that.api directly: no prepare(), the POST is sent at once
login(free) ==
  /\ free
  /\ IF api = "empty"
     THEN /\ last' = Ev("login", "threw", ErrType)
          /\ UNCHANGED pending
     ELSE /\ pending' = Add(pending, Call("login", "posted", NoToken, 1))
          /\ last' = [Ev("login", "post", Endpoint("login")) EXCEPT !.posts = 1]
  /\ UNCHANGED <<opts, api, authenticated, connected, session>>

\* a login callback that stores body.session before it looks at it
LoginBodyStoresFirst(bodySession, sess, auth) ==
  IF bodySession = NoToken
  THEN [ok |-> FALSE, val |-> ErrNoSession, session |-> bodySession,
        authenticated |-> FALSE]
  ELSE [ok |-> TRUE, val |-> bodySession, session |-> bodySession,
        authenticated |-> TRUE]

\* .spread(function(res,body){...}) of login
LoginBody(bodySession, sess, auth) ==
  IF bodySession = NoToken
  THEN [ok |-> FALSE, val |-> ErrNoSession, session |-> sess,
        authenticated |-> auth]
  ELSE [ok |-> TRUE, val |-> bodySession, session |-> bodySession,
        authenticated |-> TRUE]

(* ----------------------------------------------------------------- logout *)

\* a logout whose callback leaves the flag as it is
LogoutBodyKeepsFlag(sess, auth) ==
  [ok |-> TRUE, val |-> "body", session |-> sess, authenticated |-> auth]

\* .spread(function(res,body){...}) of logout
LogoutBody(sess, auth) ==
  [ok |-> TRUE, val |-> "body", session |-> sess, authenticated |-> FALSE]

(* ------------------------------------------- content and job operations *)

\* a content or job callback that carries logout's assignment
OpBodyClearsFlag(op, sess, auth) ==
  [ok |-> TRUE, val |-> IF op = "jobContentExists" THEN "boolean" ELSE "body",
   session |-> sess, authenticated |-> FALSE]

\* .spread(function(res,body){...}) of the content and job operations
OpBody(op, sess, auth) ==
  [ok |-> TRUE, val |-> IF op = "jobContentExists" THEN "boolean" ELSE "body",
   session |-> sess, authenticated |-> auth]

\* the synchronous part of a method that starts with that.prepare()
Invoke(op) ==
  LET r == PrepareResult(isConnected, isAuthenticated, session, NoToken) IN
  /\ IF r.ok
     THEN /\ pending' = Add(pending, Call(op, "prepared", r.token, 0))
          /\ last' = [Ev(op, "called", Null) EXCEPT !.token = r.token]
     ELSE /\ last' = Ev(op, "threw", r.err)
          /\ UNCHANGED pending
  /\ UNCHANGED <<opts, api, authenticated, connected, session>>

logout(free) == free /\ Invoke("logout")
contentDetail(free) == free /\ Invoke("contentDetail")
contentUpload(free) == free /\ Invoke("contentUpload")
contentRetrieve(free) == free /\ Invoke("contentRetrieve")
contentPurchase(free) == free /\ Invoke("contentPurchase")
contentPurchaseRemove(free) == free /\ Invoke("contentPurchaseRemove")
jobCreate(free) == free /\ Invoke("jobCreate")
jobDetail(free) == free /\ Invoke("jobDetail")
jobUpdate(free) == free /\ Invoke("jobUpdate")
jobStart(free) == free /\ Invoke("jobStart")
jobAbort(free) == free /\ Invoke("jobAbort")
jobRetry(free) == free /\ Invoke("jobRetry")
jobRemove(free) == free /\ Invoke("jobRemove")
jobContentExists(free) == free /\ Invoke("jobContentExists")

(* ------------------------------------------------------ promise callbacks *)

\* a request that reads the session when it is sent
PostTokenAtSend(c, sess) == sess

\* the header of the request client.postAsync sends: client is the one
\* prepare() returned when the method was invoked
PostToken(c, sess) == c.token

\* .then(function(result){ client = result; return client.postAsync(...) })
Post ==
  \E c \in BagToSet(pending) :
    /\ c.pc = "prepared"
    /\ pending' = Add(Remove(pending, c),
                      Call(c.op, "posted", c.token, c.posts + 1))
    /\ last' = [Ev(c.op, "post", Endpoint(c.op))
                  EXCEPT !.token = PostToken(c, session), !.posts = c.posts + 1]
    /\ UNCHANGED <<opts, api, authenticated, connected, session>>

\* that.handleNetworkError: Prism defines no such property, so the method's
\* .catch(undefined) hands the rejection on as it is
PrismHandleNetworkError(err) == err

\* the handler each method gives to .catch
CatchHandler(op, err) ==
  IF op = "login" THEN ApiHandleNetworkError(err)
  ELSE PrismHandleNetworkError(err)

Body(op, bodySession, sess, auth) ==
  CASE op = "login" -> LoginBody(bodySession, sess, auth)
    [] op = "logout" -> LogoutBody(sess, auth)
    [] OTHER -> OpBody(op, sess, auth)

\* the rest of a chain once its POST has completed: net is what the transport
\* delivered ("neterr": it failed, "invalid": a response validateResponse
\* rejects, "ok": a response it accepts), bodySession the token of body.session
Chain(op, net, bodySession, sess, auth) ==
  LET reject(e) ==
        [kind |-> "rejected", val |-> CatchHandler(op, e),
         validated |-> FALSE, session |-> sess, authenticated |-> auth]
      b == Body(op, bodySession, sess, auth)
  IN  IF net = "neterr" THEN reject(ErrTransport)
      ELSE IF Validates(op) /\ ~ValidateResponse(net)
      THEN reject(ErrValidation)
      ELSE IF ~b.ok
      THEN [reject(b.val) EXCEPT !.validated = Validates(op),
                                 !.session = b.session,
                                 !.authenticated = b.authenticated]
      ELSE [kind |-> "resolved", val |-> b.val, validated |-> Validates(op),
            session |-> b.session, authenticated |-> b.authenticated]

Settle ==
  \E c \in BagToSet(pending), net \in {"ok", "invalid", "neterr"},
     bodySession \in Tokens \cup {NoToken} :
    /\ c.pc = "posted"
    /\ (c.op # "login" \/ net = "neterr") => bodySession = NoToken
    /\ LET r == Chain(c.op, net, bodySession, session, authenticated) IN
       /\ session' = r.session
       /\ authenticated' = r.authenticated
       /\ last' = [Ev(c.op, r.kind, r.val)
                     EXCEPT !.token = c.token, !.posts = c.posts,
                            !.validated = r.validated, !.net = net,
                            !.sess = bodySession]
    /\ pending' = Remove(pending, c)
    /\ UNCHANGED <<opts, api, connected>>

(* --------------------------------------------------------- specifications *)

\* a caller that awaits every promise before it calls again
Next ==
  \/ connect
  \/ setSession
  \/ prepare
  \/ login(Idle)
  \/ logout(Idle)
  \/ contentDetail(Idle)
  \/ contentUpload(Idle)
  \/ contentRetrieve(Idle)
  \/ contentPurchase(Idle)
  \/ contentPurchaseRemove(Idle)
  \/ jobCreate(Idle)
  \/ jobDetail(Idle)
  \/ jobUpdate(Idle)
  \/ jobStart(Idle)
  \/ jobAbort(Idle)
  \/ jobRetry(Idle)
  \/ jobRemove(Idle)
  \/ jobContentExists(Idle)
  \/ Post
  \/ Settle

Spec == Init /\ [][Next]_vars

\* a caller that keeps several promises outstanding on one client
InitConc == Init /\ opts = [domain |-> DefaultDomain, host |-> Null,
                            port |-> OptsDefaultPort]

NextConc ==
  \/ connect
  \/ setSession
  \/ login(Room)
  \/ logout(Room)
  \/ contentDetail(Room)
  \/ jobStart(Room)
  \/ Post
  \/ Settle

SpecConc == InitConc /\ [][NextConc]_vars

(* ------------------------------------------------------------ properties *)

\* an event that is the synchronous return (or throw) of a method that
\* starts with that.prepare()
Invocation(e) == e.op \in PreparedOps /\ e.kind \in {"called", "threw"}
Settled(e) == e.kind \in {"resolved", "rejected"}

TypeOK ==
  /\ connected \in BOOLEAN /\ authenticated \in BOOLEAN
  /\ session \in Tokens \cup {NoToken}
  /\ api \in {"empty", "access", "prism"}
  /\ connected <=> api # "empty"
  /\ authenticated => session \in Tokens

\* C1: prepare() throws 'Not connected' whenever connected is false, throws
\* 'Not authenticated' whenever connected is true and authenticated is false,
\* and only with both flags true returns a client; called without a session
\* argument that client carries the current session token.
C1_PrepareGuard ==
  last.op = "prepare" =>
    /\ ~connected => last.kind = "threw" /\ last.val = ErrNotConnected
    /\ (connected /\ ~authenticated) =>
         last.kind = "threw" /\ last.val = ErrNotAuthenticated
    /\ (connected /\ authenticated) =>
         /\ last.kind = "resolved"
         /\ last.sess = NoToken => last.token = session

\* C1 witness: prepare() refused a connected client that had held a session
\* and is no longer authenticated.
C1_Witness ==
  /\ last.op = "prepare" /\ last.val = ErrNotAuthenticated
  /\ connected /\ ~authenticated /\ session \in Tokens

\* C2 as stated: every local precondition failure, the missing session of a
\* login included, is raised with no POST issued.
C2_NoPostBeforeLocalError ==
  (last.kind \in {"threw", "rejected"} /\ last.val \in UserErrors)
    => last.posts = 0

\* C2 amended: 'Not connected' and 'Not authenticated' are thrown
\* synchronously with no POST issued by every content/job operation and by
\* logout invoked while a flag is false (a call goes on to a request only with
\* both flags true); 'Login failed, no session' is raised only after login's
\* one POST to /user/login has been answered with a response that validates.
C2_LocalFailures ==
  /\ (last.kind \in {"threw", "rejected"}
        /\ last.val \in {ErrNotConnected, ErrNotAuthenticated})
       => last.kind = "threw" /\ last.posts = 0
  /\ Invocation(last) =>
       (last.kind = "called" <=> (connected /\ authenticated))
  /\ (last.kind = "called" /\ last.op \in PreparedOps) => last.posts = 0
  /\ (last.kind \in {"threw", "rejected"} /\ last.val = ErrNoSession)
       => /\ last.op = "login" /\ last.kind = "rejected"
          /\ last.posts = 1 /\ last.net = "ok" /\ last.validated

\* C2 witness: logout refused on a connected client that is not authenticated.
C2_Witness ==
  /\ last.op = "logout" /\ last.kind = "threw" /\ last.posts = 0
  /\ connected /\ ~authenticated

\* C3 as stated: every network or validation failure of every network
\* operation reaches the caller in normalized form.
C3_FailuresNormalized ==
  (last.kind = "rejected" /\ last.net \in {"neterr", "invalid"})
    => last.val = ErrNormalized

\* C4 as stated: every content/job operation that resolves has issued exactly
\* one POST and resolves only with a response that was validated.
C4_ValidatedSinglePost ==
  (last.op \in ContentJobOps /\ last.kind = "resolved")
    => last.validated /\ last.posts = 1

\* the login whose response passed validation and held no session
LoginNoSession(e) ==
  e.op = "login" /\ Settled(e) /\ e.net = "ok" /\ e.sess = NoToken

\* C5 as stated: after a login whose response lacks a session, authenticated
\* is false, whatever the state before.
C5_NoSessionLeavesUnauthenticated ==
  LoginNoSession(last) => ~authenticated

\* C5 amended: a login whose response lacks a session rejects with the user
\* error and leaves authenticated and the stored session as they were before
\* (false only if it was false: setSession or an earlier login stays in
\* force).
C5_NoSessionLeavesState ==
  [][LoginNoSession(last') =>
       /\ last'.kind = "rejected" /\ last'.val = ErrNoSession
       /\ authenticated' = authenticated
       /\ session' = session]_vars

\* C5 witness: the login failed for lack of a session on a client that
\* setSession or an earlier login had authenticated.
C5_Witness ==
  /\ LoginNoSession(last) /\ last.val = ErrNoSession
  /\ authenticated /\ session \in Tokens

\* C6: logout posts to /user/logout and clears authenticated only in the
\* callback that follows its validated response: the flag is untouched when
\* the request is sent and when the request or its validation fails; after a
\* successful logout the client is connected and not authenticated, every
\* content/job operation then throws 'Not authenticated', and only setSession
\* or a successful login sets the flag again.
C6_LogoutClearsOnSuccess ==
  [][/\ (authenticated /\ ~authenticated') =>
          /\ last'.op = "logout" /\ last'.kind = "resolved"
          /\ last'.validated /\ last'.net = "ok" /\ last'.posts = 1
     /\ (last'.op = "logout" /\ last'.kind = "post") =>
          last'.val = "/user/logout" /\ authenticated' = authenticated
     /\ (last'.op = "logout" /\ last'.kind = "rejected") =>
          authenticated' = authenticated
     /\ (last'.op = "logout" /\ last'.kind = "resolved") =>
          ~authenticated' /\ connected'
     /\ (~authenticated /\ connected /\ last'.op \in ContentJobOps
           /\ Invocation(last')) =>
          last'.kind = "threw" /\ last'.val = ErrNotAuthenticated
     /\ (~authenticated /\ authenticated') =>
          \/ last'.op = "setSession"
          \/ last'.op = "login" /\ last'.kind = "resolved"]_vars

\* C6 witness: after a logout, a content/job operation was refused with
\* 'Not authenticated' on a client that still holds the old session.
C6_Witness ==
  /\ last.op \in ContentJobOps /\ last.val = ErrNotAuthenticated
  /\ connected /\ ~authenticated /\ session \in Tokens

\* C7 as stated: connect with a host resolves to it and overrides the prism
\* host (and the port when given); connect without a host makes the
\* configured domain the host and resolves to it.
C7_ConnectFallsBackToDomain ==
  last.op = "connect" =>
    /\ connected
    /\ last.host # Null =>
         /\ last.val = last.host /\ opts.host = last.host
         /\ last.port # 0 => opts.port = last.port
    /\ last.host = Null =>
         last.val = opts.domain /\ opts.host = opts.domain

\* C7 amended: connect sets connected. With a host it resolves to that host,
\* stores it as the prism host and stores the port when one is given. Without
\* a host it keeps a prism host that is already configured (by the options or
\* an earlier connect) and takes the configured domain only when none is;
\* it keeps a configured prism port and otherwise takes the port argument,
\* or 5971 when that is omitted too; it resolves to the resulting prism host.
C7_Connect ==
  [][last'.op = "connect" =>
       /\ connected'
       /\ opts'.domain = opts.domain
       /\ last'.host # Null =>
            /\ last'.val = last'.host /\ opts'.host = last'.host
            /\ opts'.port = IF last'.port # 0 THEN last'.port ELSE opts.port
       /\ last'.host = Null =>
            /\ opts'.host = IF opts.host # Null THEN opts.host ELSE opts.domain
            /\ last'.val = opts'.host
            /\ opts'.port = IF opts.port # 0 THEN opts.port
                            ELSE IF last'.port # 0 THEN last'.port
                            ELSE ConnectFallbackPort]_vars

\* C7 witness: connect() without a host resolved to a prism host that is not
\* the configured domain.
C7_Witness ==
  /\ last.op = "connect" /\ last.host = Null
  /\ last.val # opts.domain /\ last.val = opts.host /\ connected

\* C8: setSession(token) returns synchronously with authenticated true and
\* the token stored, sends nothing, and leaves connected, the options, the
\* api accessor and the open calls as they were; prepare() on a client that
\* is not connected throws 'Not connected' also when it is authenticated.
C8_SetSession ==
  [][/\ last'.op = "setSession" =>
          /\ last'.kind = "returned" /\ last'.posts = 0
          /\ authenticated' /\ session' = last'.sess
          /\ connected' = connected /\ opts' = opts /\ api' = api
          /\ pending' = pending
     /\ (last'.op = "prepare" /\ ~connected') =>
          last'.kind = "threw" /\ last'.val = ErrNotConnected]_vars

\* C8 witness: prepare() threw 'Not connected' on a client that only
\* setSession had touched.
C8_Witness ==
  /\ last.op = "prepare" /\ last.val = ErrNotConnected
  /\ ~connected /\ authenticated /\ session \in Tokens /\ api = "empty"

\* C9: both flags start false; connected never returns to false and only
\* connect sets it; only setSession or a login that resolves sets
\* authenticated, only a logout that resolves clears it; no content or job
\* operation, at any of its steps, changes connected, authenticated, the
\* session, the options or the api accessor.
C9_FlagWriters ==
  /\ ~connected /\ ~authenticated
  /\ [][/\ connected => connected'
        /\ (~connected /\ connected') => last'.op = "connect"
        /\ (~authenticated /\ authenticated') =>
             \/ last'.op = "setSession"
             \/ last'.op = "login" /\ last'.kind = "resolved"
        /\ (authenticated /\ ~authenticated') =>
             last'.op = "logout" /\ last'.kind = "resolved"
        /\ last'.op \in ContentJobOps =>
             UNCHANGED <<connected, authenticated, session, opts, api>>]_vars

\* C9 witness: a content or job operation resolved on a connected and
\* authenticated client.
C9_Witness ==
  /\ last.op \in ContentJobOps /\ last.kind = "resolved"
  /\ connected /\ authenticated

\* C10: the guard and the session token are read once, when the method is
\* invoked: invoked with a flag false it throws and leaves no call behind
\* that could send a request; invoked with both flags true it opens a call
\* holding the token of that moment, and the POST of an operation is always
\* that of an open call that has not posted yet and carries that call's
\* token, whatever the flags and the session are when it is sent.
C10_ReadAtInvocation ==
  [][/\ Invocation(last') =>
          IF connected /\ authenticated
          THEN /\ last'.kind = "called" /\ last'.token = session
               /\ pending' = Add(pending, Call(last'.op, "prepared", session, 0))
          ELSE last'.kind = "threw" /\ pending' = pending
     /\ (last'.kind = "post" /\ last'.op \in PreparedOps) =>
          \E c \in BagToSet(pending) :
            /\ c.op = last'.op /\ c.pc = "prepared" /\ c.posts = 0
            /\ last'.token = c.token /\ last'.val = Endpoint(c.op)
            /\ pending' = Add(Remove(pending, c),
                              Call(c.op, "posted", c.token, 1))]_vars

\* C10 witness: a content or job request carrying a session token was sent
\* while the client was not authenticated.
C10_Witness ==
  /\ last.kind = "post" /\ last.op \in ContentJobOps
  /\ last.token \in Tokens /\ ~authenticated

====
